---- MODULE Spec2Model ----
(***************************************************************************)
(* Model of app.py, the HR dashboard script: prepare_df (the enrichment    *)
(* pass over the employee table), the six indicator functions and the      *)
(* control flow of the load step of one script run.                        *)
(*                                                                         *)
(* Text is a sequence of one-character strings, so that strip, upper and   *)
(* the parsers act on characters.  Money is in whole currency units.       *)
(* A date is a day number counted from 1970-01-01.                         *)
(***************************************************************************)
EXTENDS Integers, Sequences, FiniteSets, TLC

\* ------------------------------------------------------------------ bounds

\* Largest number of records of an input table.
MaxRows == 2

\* ------------------------------------------------------------------- text

LowerChars == <<"a","b","c","d","e","f","g","h","i","j","k","l","m",
                "n","o","p","q","r","s","t","u","v","w","x","y","z">>
UpperChars == <<"A","B","C","D","E","F","G","H","I","J","K","L","M",
                "N","O","P","Q","R","S","T","U","V","W","X","Y","Z">>
DigitChars == <<"0","1","2","3","4","5","6","7","8","9">>

IsSpace(c) == c \in {" ", "\t", "\n"}
IsDigit(c) == \E i \in 1..10 : DigitChars[i] = c
DigitVal(c) == (CHOOSE i \in 1..10 : DigitChars[i] = c) - 1

\* str.upper() on one character.
UpperChar(c) ==
    IF \E i \in 1..26 : LowerChars[i] = c
    THEN UpperChars[CHOOSE i \in 1..26 : LowerChars[i] = c]
    ELSE c

\* Series.str.upper(): every character of the text uppercased.
StrUpper(s) == [i \in 1..Len(s) |-> UpperChar(s[i])]

\* str.strip(): leading and trailing whitespace removed.
StrStrip(s) ==
    LET keep == {i \in 1..Len(s) : ~IsSpace(s[i])}
    IN IF keep = {} THEN <<>>
       ELSE LET lo == CHOOSE i \in keep : \A j \in keep : i <= j
                hi == CHOOSE i \in keep : \A j \in keep : j <= i
            IN SubSeq(s, lo, hi)

\* The decimal digits of a natural number, as str() writes them.
RECURSIVE NatDigits(_)
NatDigits(n) ==
    IF n < 10 THEN <<DigitChars[n + 1]>>
    ELSE Append(NatDigits(n \div 10), DigitChars[(n % 10) + 1])

\* str(n) for an integer n.
FormatInt(n) == IF n < 0 THEN <<"-">> \o NatDigits(-n) ELSE NatDigits(n)

\* The value of a text made of digits only.
RECURSIVE DigitsValue(_)
DigitsValue(s) ==
    IF s = <<>> THEN 0
    ELSE 10 * DigitsValue(SubSeq(s, 1, Len(s) - 1)) + DigitVal(s[Len(s)])

AllDigits(s) == s # <<>> /\ \A i \in 1..Len(s) : IsDigit(s[i])

\* ------------------------------------------------------------------ cells

\* One cell of a table.  k is the kind of value:
\*   "null"  NaN / None / NaT
\*   "num"   a number, n its value
\*   "str"   a text, s its characters
\*   "ts"    a timestamp at midnight of day n
\*   "tsf"   a timestamp within day n, after midnight
Null == [k |-> "null", n |-> 0, s |-> <<>>]
Num(v) == [k |-> "num", n |-> v, s |-> <<>>]
Str(t) == [k |-> "str", n |-> 0, s |-> t]
Ts(d) == [k |-> "ts", n |-> d, s |-> <<>>]
Tsf(d) == [k |-> "tsf", n |-> d, s |-> <<>>]

IsNull(c) == c.k = "null"
IsTs(c) == c.k \in {"ts", "tsf"}

\* --------------------------------------------------------------- calendar

IsLeap(y) == (y % 4 = 0 /\ y % 100 # 0) \/ y % 400 = 0

DaysInMonth(y, m) ==
    IF m = 2 THEN (IF IsLeap(y) THEN 29 ELSE 28)
    ELSE IF m \in {4, 6, 9, 11} THEN 30 ELSE 31

\* Day number of the calendar date y-m-d (proleptic Gregorian).
DaysFromCivil(y, m, d) ==
    LET yy  == IF m <= 2 THEN y - 1 ELSE y
        era == yy \div 400
        yoe == yy - era * 400
        mp  == (m + 9) % 12
        doy == (153 * mp + 2) \div 5 + d - 1
        doe == yoe * 365 + yoe \div 4 - yoe \div 100 + doy
    IN era * 146097 + doe - 719468

\* The calendar date of a day number: Timestamp.year and Timestamp.month.
CivilFromDays(z) ==
    LET zz  == z + 719468
        era == zz \div 146097
        doe == zz - era * 146097
        yoe == (doe - doe \div 1460 + doe \div 36524 - doe \div 146096) \div 365
        doy == doe - (365 * yoe + yoe \div 4 - yoe \div 100)
        mp  == (5 * doy + 2) \div 153
        d   == doy - (153 * mp + 2) \div 5 + 1
        m   == IF mp < 10 THEN mp + 3 ELSE mp - 9
        y   == yoe + era * 400 + (IF m <= 2 THEN 1 ELSE 0)
    IN [year |-> y, month |-> m, day |-> d]

\* First and last whole year a pandas Timestamp can hold a date of.
MinTsYear == 1678
MaxTsYear == 2261

\* ------------------------------------------------------------ column names

NASCIMENTO == "Data de Nascimento"
CONTRATACAO == "Data de Contratacao"
DEMISSAO == "Data de Demissao"
SEXO == "Sexo"
IDADE == "Idade"
TEMPO == "Tempo de Casa (meses)"
STATUS == "Status"
CUSTO == "Custo Total Mensal"
SALARIO == "Salario Base"
\* The employee-rating column read by k_avaliacao_media (ASCII spelling).
AVALIACAO == "Avaliacao do Funcionario"
\* The columns the first two charts group by ("Area" in ASCII spelling).
AREA == "Area"
CARGO == "Cargo"
\* A column the script does not know.
OBS == "Observacao"

DATE_COLS == {NASCIMENTO, CONTRATACAO, DEMISSAO}
MONEY_COLS == {SALARIO, "Impostos", "Beneficios", "VT", "VR"}

S_nan == <<"n","a","n">>
S_M == <<"M">>
S_F == <<"F">>
S_MASCULINO == <<"M","A","S","C","U","L","I","N","O">>
S_FEMININO == <<"F","E","M","I","N","I","N","O">>
S_Ativo == <<"A","t","i","v","o">>
S_Desligado == <<"D","e","s","l","i","g","a","d","o">>

\* -------------------------------------------------------------- DataFrame

\* A spreadsheet's first sheet: n records, and for each column name the
\* sequence of its n cells.  A DataFrame adds the dtype of each column:
\*   "object", "number" (int64 / float64) or "datetime" (datetime64[ns]).
Columns(df) == DOMAIN df.col
Rows(df) == 1..df.n

\* The dtype pd.read_excel gives a column: a column without any cell is
\* object; numbers and empty cells make a numeric column; timestamps and
\* empty cells a datetime column; anything else (a text, or a mix) object.
InferDtype(cells) ==
    IF cells = <<>> THEN "object"
    ELSE IF \A i \in 1..Len(cells) : cells[i].k \in {"null", "num"} THEN "number"
    ELSE IF \A i \in 1..Len(cells) : cells[i].k \in {"null", "ts", "tsf"} THEN "datetime"
    ELSE "object"

\* pd.read_excel(..., sheet_name=0) of a readable spreadsheet.
ReadExcel(sheet) ==
    [n   |-> sheet.n,
     col |-> [c \in DOMAIN sheet.col |->
                [dtype |-> InferDtype(sheet.col[c]), cells |-> sheet.col[c]]]]

\* astype(str) of one cell of an object column: an empty cell becomes the
\* text "nan", a number its decimal form, a text stays.
AsStr(c) ==
    CASE c.k = "null" -> S_nan
      [] c.k = "num"  -> FormatInt(c.n)
      [] c.k = "str"  -> c.s

\* A plausible slip: the .str.strip() left out.
TrimCellNoStrip(c) == Str(AsStr(c))

\* df[c].astype(str).str.strip() for one cell.
TrimCell(c) == Str(StrStrip(AsStr(c)))

\* for c in df.select_dtypes(include="object").columns: trim.
TrimObjectColumns(df) ==
    [df EXCEPT !.col =
        [c \in Columns(df) |->
            IF df.col[c].dtype = "object"
            THEN [dtype |-> "object",
                  cells |-> [i \in Rows(df) |-> TrimCell(df.col[c].cells[i])]]
            ELSE df.col[c]]]

\* A text DD/MM/YYYY read day first; a text that is no such date, or whose
\* date a Timestamp cannot hold, is NaT under errors="coerce".
ParseDate(s) ==
    IF /\ Len(s) = 10
       /\ s[3] = "/" /\ s[6] = "/"
       /\ \A i \in {1, 2, 4, 5, 7, 8, 9, 10} : IsDigit(s[i])
    THEN LET d == DigitsValue(SubSeq(s, 1, 2))
             m == DigitsValue(SubSeq(s, 4, 5))
             y == DigitsValue(SubSeq(s, 7, 10))
         IN IF /\ m \in 1..12
               /\ y \in MinTsYear..MaxTsYear
               /\ d \in 1..DaysInMonth(y, m)
            THEN Ts(DaysFromCivil(y, m, d))
            ELSE Null
    ELSE Null

\* pd.to_datetime(..., dayfirst=True, errors="coerce") for one cell: a
\* number counts nanoseconds from 1970-01-01 (the numbers of the model are
\* far below one day of nanoseconds), a timestamp stays, a text is parsed.
ToDatetimeCell(c) ==
    CASE c.k = "null" -> Null
      [] c.k = "num"  -> IF c.n = 0 THEN Ts(0)
                         ELSE IF c.n > 0 THEN Tsf(0) ELSE Tsf(-1)
      [] c.k = "str"  -> ParseDate(c.s)
      [] IsTs(c)      -> c

\* for c in DATE_COLS: if c in df.columns: df[c] = pd.to_datetime(...)
ParseDateColumns(df) ==
    [df EXCEPT !.col =
        [c \in Columns(df) |->
            IF c \in DATE_COLS
            THEN [dtype |-> "datetime",
                  cells |-> [i \in Rows(df) |-> ToDatetimeCell(df.col[c].cells[i])]]
            ELSE df.col[c]]]

\* .replace({"MASCULINO": "M", "FEMININO": "F"}) on one text.
ReplaceSexo(s) ==
    IF s = S_MASCULINO THEN S_M
    ELSE IF s = S_FEMININO THEN S_F
    ELSE s

\* A plausible slip: the replacement done before the uppercasing.
SexoValueReplaceFirst(s) == StrUpper(ReplaceSexo(s))

\* A plausible slip: the uppercasing left out.
SexoValueNoUpper(s) == ReplaceSexo(s)

\* df["Sexo"].str.upper().replace({...}) on one text.
SexoValue(s) == ReplaceSexo(StrUpper(s))

\* Whether Series.str exists: only a column of dtype object has it;
\* on any other dtype the attribute access raises AttributeError.
HasStrAccessor(column) == column.dtype = "object"

\* if "Sexo" in df.columns: df["Sexo"] = df["Sexo"].str.upper().replace(...)
\* Only reached when the column is absent or has the .str accessor.
CanonSexo(df) ==
    IF SEXO \in Columns(df)
    THEN [df EXCEPT !.col[SEXO].cells =
            [i \in Rows(df) |-> Str(SexoValue(df.col[SEXO].cells[i].s))]]
    ELSE df

\* An integer literal, with an optional sign, or NaN: what pd.to_numeric
\* makes of the texts of the model under errors="coerce".
ParseNumber(s) ==
    IF AllDigits(s) THEN Num(DigitsValue(s))
    ELSE IF Len(s) > 1 /\ s[1] \in {"-", "+"} /\ AllDigits(Tail(s))
         THEN Num((IF s[1] = "-" THEN -1 ELSE 1) * DigitsValue(Tail(s)))
         ELSE Null

\* pd.to_numeric(..., errors="coerce") for one cell.
ToNumericCell(c) ==
    CASE c.k = "null" -> Null
      [] c.k = "num"  -> c
      [] c.k = "str"  -> ParseNumber(c.s)

\* A plausible slip: the fillna(0.0) left out.
CoerceMoneyCellNoFill(c) == ToNumericCell(c)

\* pd.to_numeric(df[col], errors="coerce").fillna(0.0) for one cell.
CoerceMoneyCell(c) ==
    LET v == ToNumericCell(c) IN IF IsNull(v) THEN Num(0) ELSE v

\* for col in [...]: if col not in df.columns: df[col] = 0.0
\*                   df[col] = pd.to_numeric(...).fillna(0.0)
CoerceMoneyColumns(df) ==
    [df EXCEPT !.col =
        [c \in Columns(df) \cup MONEY_COLS |->
            IF c \in MONEY_COLS
            THEN [dtype |-> "number",
                  cells |-> [i \in Rows(df) |->
                               IF c \in Columns(df)
                               THEN CoerceMoneyCell(df.col[c].cells[i])
                               ELSE CoerceMoneyCell(Num(0))]]
            ELSE df.col[c]]]

Max(a, b) == IF a >= b THEN a ELSE b

\* (today - date).dt.days of one timestamp: whole days, rounded down.
DaysBetween(today, c) == today - c.n - (IF c.k = "tsf" THEN 1 ELSE 0)

\* A plausible slip: the clip(lower=0) left out.
IdadeCellNoClip(today, c) ==
    IF IsNull(c) THEN Null ELSE Num(DaysBetween(today, c) \div 365)

\* ((today - birth).dt.days // 365).clip(lower=0) for one cell.
IdadeCell(today, c) ==
    IF IsNull(c) THEN Null ELSE Num(Max(0, DaysBetween(today, c) \div 365))

\* (today.year - hire.year) * 12 + (today.month - hire.month), clipped.
TempoCell(today, c) ==
    IF IsNull(c) THEN Null
    ELSE LET t == CivilFromDays(today)
             h == CivilFromDays(c.n)
         IN Num(Max(0, (t.year - h.year) * 12 + (t.month - h.month)))

\* A new or overwritten column of the table.
WithColumn(df, name, dtype, cells) ==
    [df EXCEPT !.col = (name :> [dtype |-> dtype, cells |-> cells]) @@ df.col]

\* if "Data de Nascimento" in df.columns: df["Idade"] = ...
AddIdade(df, today) ==
    IF NASCIMENTO \in Columns(df)
    THEN WithColumn(df, IDADE, "number",
            [i \in Rows(df) |-> IdadeCell(today, df.col[NASCIMENTO].cells[i])])
    ELSE df

\* if "Data de Contratacao" in df.columns: df["Tempo de Casa (meses)"] = ...
AddTempo(df, today) ==
    IF CONTRATACAO \in Columns(df)
    THEN WithColumn(df, TEMPO, "number",
            [i \in Rows(df) |-> TempoCell(today, df.col[CONTRATACAO].cells[i])])
    ELSE df

\* A plausible slip: the two labels of np.where exchanged.
StatusCellSwapped(c) == IF ~IsNull(c) THEN Str(S_Ativo) ELSE Str(S_Desligado)

\* np.where(df["Data de Demissao"].notna(), "Desligado", "Ativo"), one cell.
StatusCell(c) == IF ~IsNull(c) THEN Str(S_Desligado) ELSE Str(S_Ativo)

\* if "Data de Demissao" in df.columns: ... else: df["Status"] = "Ativo"
AddStatus(df) ==
    WithColumn(df, STATUS, "object",
        [i \in Rows(df) |->
            IF DEMISSAO \in Columns(df)
            THEN StatusCell(df.col[DEMISSAO].cells[i])
            ELSE Str(S_Ativo)])

\* The sum of a finite set of columns' numbers in record i.
RECURSIVE SumCols(_, _, _)
SumCols(df, cols, i) ==
    IF cols = {} THEN 0
    ELSE LET c == CHOOSE c \in cols : TRUE
         IN df.col[c].cells[i].n + SumCols(df, cols \ {c}, i)

\* df["Custo Total Mensal"] = df[[five columns]].sum(axis=1)
AddCusto(df) ==
    WithColumn(df, CUSTO, "number",
        [i \in Rows(df) |-> Num(SumCols(df, MONEY_COLS, i))])

\* prepare_df: the table it returns, or the exception it raises.  The only
\* statement of it that can raise on the tables of the model is the .str
\* access of the Sexo step.
Returned(df) == [ok |-> TRUE, err |-> "", df |-> df]
Raised(err) == [ok |-> FALSE, err |-> err, df |-> [n |-> 0, col |-> <<>>]]

PrepareDf(raw, today) ==
    LET d2 == ParseDateColumns(TrimObjectColumns(raw))
    IN IF SEXO \in Columns(d2) /\ ~HasStrAccessor(d2.col[SEXO])
       THEN Raised("AttributeError")
       ELSE Returned(AddCusto(AddStatus(AddTempo(AddIdade(
                CoerceMoneyColumns(CanonSexo(d2)), today), today))))

\* ------------------------------------------------------------- indicators

\* A Python number an indicator returns: NaN, or the fraction num / den.
NaN == [nan |-> TRUE, num |-> 0, den |-> 1]
Number(v) == [nan |-> FALSE, num |-> v, den |-> 1]
IsZero(x) == ~x.nan /\ x.num = 0

\* d["Status"] == label, as the set of the records it selects.
StatusIs(d, label) == {i \in Rows(d) : d.col[STATUS].cells[i].s = label}

\* The sum of a column's numbers over a set of records; empty cells are
\* skipped, and the sum of nothing is 0.
RECURSIVE SumCells(_, _, _)
SumCells(d, c, S) ==
    IF S = {} THEN 0
    ELSE LET i == CHOOSE i \in S : TRUE
             x == d.col[c].cells[i]
         IN (IF IsNull(x) THEN 0 ELSE x.n) + SumCells(d, c, S \ {i})

\* Series.mean(): the mean of the cells that are not empty; NaN when there
\* is none.
Mean(d, c) ==
    LET S == {i \in Rows(d) : ~IsNull(d.col[c].cells[i])}
    IN IF S = {} THEN NaN
       ELSE [nan |-> FALSE, num |-> SumCells(d, c, S), den |-> Cardinality(S)]

k_headcount_ativo(d) == Number(Cardinality(StatusIs(d, S_Ativo)))

k_desligados(d) == Number(Cardinality(StatusIs(d, S_Desligado)))

\* A plausible slip: the Status filter left out.
k_folha_unfiltered(d) == Number(SumCells(d, SALARIO, Rows(d)))

k_folha(d) == Number(SumCells(d, SALARIO, StatusIs(d, S_Ativo)))

k_custo_total(d) == Number(SumCells(d, CUSTO, StatusIs(d, S_Ativo)))

k_idade_media(d) == IF IDADE \in Columns(d) THEN Mean(d, IDADE) ELSE Number(0)

k_avaliacao_media(d) ==
    IF AVALIACAO \in Columns(d) THEN Mean(d, AVALIACAO) ELSE Number(0)

\* The six indicators of the "Indicadores de RH" block.
Indicators(d) ==
    [headcount |-> k_headcount_ativo(d),
     desligados |-> k_desligados(d),
     folha |-> k_folha(d),
     custo |-> k_custo_total(d),
     idade |-> k_idade_media(d),
     avaliacao |-> k_avaliacao_media(d)]

\* ----------------------------------------------------------------- inputs

\* Texts of the input cells.
T_feminino == <<"f","e","m","i","n","i","n","o">>
T_Masculino == <<"M","a","s","c","u","l","i","n","o">>
T_Outro == <<"O","u","t","r","o">>
T_OUTRO == <<"O","U","T","R","O">>
T_M_padded == <<" ","M"," ">>
T_15_03_1990 == <<"1","5","/","0","3","/","1","9","9","0">>
T_01_01_2030 == <<"0","1","/","0","1","/","2","0","3","0">>
T_31_02_2020 == <<"3","1","/","0","2","/","2","0","2","0">>
T_not_a_date == <<"n","o","t","-","a","-","d","a","t","e">>
T_70 == <<"7","0">>
T_4_padded == <<" ","4"," ">>
T_abc == <<"a","b","c">>
T_1_5 == <<"1",",","5">>
T_empty == <<>>
T_a_b_padded == <<" ","a"," ","b"," ">>
T_a_b == <<"a"," ","b">>

\* The values date.today() takes in the model, both before 2030.
Todays == {DaysFromCivil(2026, 11, 4), DaysFromCivil(2024, 2, 29)}
\* One of them, for the runs whose subject does not read the date.
OneToday == {DaysFromCivil(2026, 11, 4)}

\* The cells an input column may hold, as classes: the cells of one column
\* are drawn from one class.  A date column is either typed as text
\* (DD/MM/YYYY texts, other texts, empty cells) or as dates (timestamps and
\* empty cells); the other columns mix their cells freely.
DateClasses ==
    {{Str(T_15_03_1990), Str(T_01_01_2030), Str(T_not_a_date)},
     {Null, Ts(DaysFromCivil(2020, 1, 1))},
     {Num(5)}}

DemissaoClasses ==
    {{Null, Str(T_15_03_1990), Str(T_31_02_2020), Str(T_empty)},
     {Null, Ts(DaysFromCivil(2020, 1, 1))},
     {Num(5)}}

Classes(c) ==
    CASE c \in {NASCIMENTO, CONTRATACAO} -> DateClasses
      [] c = DEMISSAO     -> DemissaoClasses
      [] c = SEXO         -> {{Null, Num(1), Str(T_feminino), Str(T_Masculino),
                               Str(T_Outro), Str(T_M_padded)}}
      [] c = OBS          -> {{Null, Num(7), Str(T_a_b_padded)}}
      [] c = AVALIACAO    -> {{Num(3)}}
      [] c = SALARIO      -> {{Num(5), Str(T_70)}}
      [] c = "Impostos"   -> {{Null, Num(2)}}
      [] c = "Beneficios" -> {{Str(T_abc)}, {Str(T_4_padded)}}
      [] c = "VT"         -> {{Str(T_empty)}, {Num(1)}}
      [] c = "VR"         -> {{Null, Str(T_1_5)}}

\* The contents a column c of n records may have.
ColumnChoices(c, n) == UNION {[1..n -> cls] : cls \in Classes(c)}

\* The assignments of contents to the columns cs, for n records.
RECURSIVE ColumnMaps(_, _)
ColumnMaps(cs, n) ==
    IF cs = {} THEN {<<>>}
    ELSE LET c == CHOOSE c \in cs : TRUE
         IN {(c :> v) @@ f : v \in ColumnChoices(c, n), f \in ColumnMaps(cs \ {c}, n)}

\* Every spreadsheet of at most MaxRows records whose columns are among
\* the columns of universe.
Sheets(universe) ==
    UNION {{[n |-> n, col |-> f] : f \in ColumnMaps(cs, n)} :
             cs \in SUBSET universe, n \in 0..MaxRows}

\* ------------------------------------------------------------------ state

VARIABLES
    sheet,           \* the first sheet of the spreadsheet being loaded
    today,           \* date.today(), as a day number
    pc,              \* where the run is
    up,              \* the file uploader's value
    caminho_manual,  \* the path typed in the sidebar
    df,              \* <<>> for None, or <<the prepared table>>
    fonte,           \* "None", "Upload" or "Caminho"
    shown,           \* what the run has rendered so far, in order
    kpi,             \* <<>>, or <<the six indicators>>
    exc,             \* the exception prepare_df raised, "" for none
    cache            \* st.cache_data: <<function, argument>> -> table

vars == <<sheet, today, pc, up, caminho_manual, df, fonte, shown, kpi, exc, cache>>

\* --------------------------------------- prepare_df and the indicators alone

\* prepare_df is about to be called on the table read from sheet.
InitPrepare(S, T) ==
    /\ sheet \in S
    /\ today \in T
    /\ pc = "raw"
    /\ up = "None"
    /\ caminho_manual = ""
    /\ df = <<>>
    /\ fonte = "None"
    /\ shown = <<>>
    /\ kpi = <<>>
    /\ exc = ""
    /\ cache = <<>>

\* prepare_df(df): returns the enriched table, or raises.
CallPrepare ==
    /\ pc = "raw"
    /\ LET r == PrepareDf(ReadExcel(sheet), today)
       IN IF r.ok
          THEN /\ df' = <<r.df>>
               /\ pc' = "prepared"
               /\ exc' = exc
          ELSE /\ df' = df
               /\ pc' = "raised"
               /\ exc' = r.err
    /\ UNCHANGED <<sheet, today, up, caminho_manual, fonte, shown, kpi, cache>>

\* The six indicator functions applied to the prepared table.
CallIndicators ==
    /\ pc = "prepared"
    /\ kpi' = <<Indicators(df[1])>>
    /\ pc' = "measured"
    /\ UNCHANGED <<sheet, today, up, caminho_manual, df, fonte, shown, exc, cache>>

NextPrepare == CallPrepare \/ CallIndicators

SpecSexo == InitPrepare(Sheets({SEXO, OBS}), OneToday) /\ [][NextPrepare]_vars
SpecDatas == InitPrepare(Sheets({NASCIMENTO, CONTRATACAO, AVALIACAO}), Todays) /\ [][NextPrepare]_vars
SpecFolha == InitPrepare(Sheets({DEMISSAO, SALARIO, "Impostos"}), OneToday) /\ [][NextPrepare]_vars
SpecCusto == InitPrepare(Sheets(MONEY_COLS), OneToday) /\ [][NextPrepare]_vars

\* ------------------------------------------------------------ the script

DEFAULT_EXCEL_PATH == "BaseFuncionarios.xlsx"

\* What the file uploader can hold: nothing, a spreadsheet whose first
\* sheet is sheet, or a file that is no spreadsheet.
Uploads == {"None", "planilha.xlsx", "corrompido.xlsx"}

\* What the path input can hold: the default path, where a spreadsheet
\* whose first sheet is sheet lies; a path with no file; the path of a file
\* that is no spreadsheet.
Paths == {DEFAULT_EXCEL_PATH, "ausente.xlsx", "quebrado.xlsx"}

\* os.path.exists(path)
PathExists(path) == path # "ausente.xlsx"

\* Whether pd.read_excel can parse the source.
Readable(source) == source \in {DEFAULT_EXCEL_PATH, "planilha.xlsx"}

\* The tables of the script's runs: a Sexo column of numbers makes
\* prepare_df raise, one of texts does not.
ScriptSheets ==
    {s \in Sheets({SEXO, SALARIO}) :
        SEXO \in DOMAIN s.col =>
            \A i \in 1..s.n : s.col[SEXO][i] \in {Num(1), Str(T_feminino)}}

Init ==
    /\ sheet \in ScriptSheets
    /\ today \in OneToday
    /\ pc = "start"
    /\ up = "None"
    /\ caminho_manual = DEFAULT_EXCEL_PATH
    /\ df = <<>>
    /\ fonte = "None"
    /\ shown = <<>>
    /\ kpi = <<>>
    /\ exc = ""
    /\ cache = <<>>

\* The body of load_from_path / load_from_bytes: read_excel, prepare_df.
LoadBody(source) ==
    IF Readable(source) THEN PrepareDf(ReadExcel(sheet), today)
    ELSE Raised("BadZipFile")

\* A call of a function under @st.cache_data: the memoised table when the
\* argument was seen, the body otherwise.  An exception is never memoised.
CachedLoad(fn, source) ==
    IF <<fn, source>> \in DOMAIN cache
    THEN Returned(cache[<<fn, source>>])
    ELSE LoadBody(source)

Memoised(fn, source, r) ==
    IF r.ok THEN (<<fn, source>> :> r.df) @@ cache ELSE cache

\* The sidebar widgets deliver the user's inputs; df = None; fonte = None.
Sidebar ==
    /\ pc = "start"
    /\ up' \in Uploads
    /\ caminho_manual' \in Paths
    /\ df' = <<>>
    /\ fonte' = "None"
    /\ pc' = "load"
    /\ UNCHANGED <<sheet, today, shown, kpi, exc, cache>>

\* What a load does with the result r of its loader: the table and its
\* source are kept, or st.error(message) and st.stop().
FinishLoad(r, label, message) ==
    IF r.ok
    THEN /\ df' = <<r.df>>
         /\ fonte' = label
         /\ shown' = shown
         /\ exc' = exc
         /\ pc' = "caption"
    ELSE /\ df' = df
         /\ fonte' = fonte
         /\ shown' = Append(shown, message)
         /\ exc' = r.err
         /\ pc' = "stopped"

\* A plausible slip: an upload that cannot be read falls back to the path.
LoadUploadFallingBack ==
    /\ pc = "load"
    /\ up # "None"
    /\ LET r == CachedLoad("load_from_bytes", up)
           q == CachedLoad("load_from_path", caminho_manual)
       IN IF r.ok
          THEN /\ FinishLoad(r, "Upload", "Erro ao ler Excel (Upload)")
               /\ cache' = Memoised("load_from_bytes", up, r)
          ELSE /\ FinishLoad(q, "Caminho", "Erro ao ler Excel (Caminho)")
               /\ cache' = Memoised("load_from_path", caminho_manual, q)
    /\ UNCHANGED <<sheet, today, up, caminho_manual, kpi>>

\* if up is not None: try: df = load_from_bytes(up) ... except: error, stop
LoadUpload ==
    /\ pc = "load"
    /\ up # "None"
    /\ LET r == CachedLoad("load_from_bytes", up)
       IN /\ FinishLoad(r, "Upload", "Erro ao ler Excel (Upload)")
          /\ cache' = Memoised("load_from_bytes", up, r)
    /\ UNCHANGED <<sheet, today, up, caminho_manual, kpi>>

\* else: try: if not os.path.exists(...): error, stop
\*            df = load_from_path(caminho_manual) ... except: error, stop
\* st.stop() raises a control exception that "except Exception" lets pass.
LoadPath ==
    /\ pc = "load"
    /\ up = "None"
    /\ IF ~PathExists(caminho_manual)
       THEN /\ shown' = Append(shown, "Arquivo nao encontrado")
            /\ pc' = "stopped"
            /\ UNCHANGED <<df, fonte, exc, cache>>
       ELSE LET r == CachedLoad("load_from_path", caminho_manual)
            IN /\ FinishLoad(r, "Caminho", "Erro ao ler Excel (Caminho)")
               /\ cache' = Memoised("load_from_path", caminho_manual, r)
    /\ UNCHANGED <<sheet, today, up, caminho_manual, kpi>>

\* st.caption("Dados carregados via ...")
Caption ==
    /\ pc = "caption"
    /\ shown' = Append(shown, "caption")
    /\ pc' = "kpis"
    /\ UNCHANGED <<sheet, today, up, caminho_manual, df, fonte, kpi, exc, cache>>

\* The six indicator cards.
ShowIndicators ==
    /\ pc = "kpis"
    /\ kpi' = <<Indicators(df[1])>>
    /\ shown' = Append(shown, "indicators")
    /\ pc' = "charts"
    /\ UNCHANGED <<sheet, today, up, caminho_manual, df, fonte, exc, cache>>

\* The charts of the columns cs, in their order, that the table has.
RECURSIVE Charts(_, _)
Charts(d, cs) ==
    IF cs = <<>> THEN <<>>
    ELSE (IF Head(cs) \in Columns(d) THEN <<"chart " \o Head(cs)>> ELSE <<>>)
         \o Charts(d, Tail(cs))

\* The four charts, each drawn only if the table has its column.
ShowCharts ==
    /\ pc = "charts"
    /\ shown' = shown \o Charts(df[1], <<AREA, CARGO, IDADE, SEXO>>)
    /\ pc' = "table"
    /\ UNCHANGED <<sheet, today, up, caminho_manual, df, fonte, kpi, exc, cache>>

\* st.dataframe(df) and the two download buttons.
ShowTable ==
    /\ pc = "table"
    /\ shown' = shown \o <<"table", "download csv", "download xlsx">>
    /\ pc' = "done"
    /\ UNCHANGED <<sheet, today, up, caminho_manual, df, fonte, kpi, exc, cache>>

\* The next interaction runs the script again from its first line; only
\* the cache outlives a run.
Rerun ==
    /\ pc \in {"done", "stopped"}
    /\ pc' = "start"
    /\ df' = <<>>
    /\ fonte' = "None"
    /\ shown' = <<>>
    /\ kpi' = <<>>
    /\ exc' = ""
    /\ UNCHANGED <<sheet, today, up, caminho_manual, cache>>

Next ==
    \/ Sidebar
    \/ LoadUpload
    \/ LoadPath
    \/ Caption
    \/ ShowIndicators
    \/ ShowCharts
    \/ ShowTable
    \/ Rerun

Spec == Init /\ [][Next]_vars

\* ----------------------------------------------------------------- claims

\* prepare_df has returned; Out is the table it returned and In the cells
\* of the spreadsheet it was given.
Prepared == pc \in {"prepared", "measured"}
Out == df[1]
OutCell(c, i) == df[1].col[c].cells[i]
InCell(c, i) == sheet.col[c][i]
HasIn(c) == c \in DOMAIN sheet.col

\* C1: prepare_df never raises, whatever columns are present and whatever
\* the cells hold (a Sexo column of only empty cells or only numbers
\* included): every call returns a table.
C1_PrepareNeverRaises == pc # "raised"

\* C2: after prepare_df every record has a Status, Ativo or Desligado; it
\* is Desligado exactly when the termination-date column exists and the
\* record's (parsed) termination date is not null; an empty cell gives
\* Ativo and a date gives Desligado; without the column all are Ativo.
C2_StatusIffTerminationDate ==
    Prepared =>
        /\ STATUS \in Columns(Out)
        /\ \A i \in Rows(Out) :
            /\ OutCell(STATUS, i) \in {Str(S_Ativo), Str(S_Desligado)}
            /\ OutCell(STATUS, i) = Str(S_Desligado)
                 <=> (HasIn(DEMISSAO) /\ ~IsNull(OutCell(DEMISSAO, i)))
            /\ ~HasIn(DEMISSAO) => OutCell(STATUS, i) = Str(S_Ativo)
            /\ (HasIn(DEMISSAO) /\ InCell(DEMISSAO, i) = Null)
                 => OutCell(STATUS, i) = Str(S_Ativo)
            /\ (HasIn(DEMISSAO) /\ InCell(DEMISSAO, i) = Str(T_15_03_1990))
                 => OutCell(STATUS, i) = Str(S_Desligado)

\* A table with a terminated record (its date given as text) and an active one.
C2_Witness ==
    /\ Prepared
    /\ HasIn(DEMISSAO)
    /\ \E i, j \in Rows(Out) :
        /\ InCell(DEMISSAO, i) = Str(T_15_03_1990)
        /\ OutCell(STATUS, i) = Str(S_Desligado)
        /\ OutCell(STATUS, j) = Str(S_Ativo)

\* The raw values of the model that are absent, empty or not numeric.
NotNumericIn == {Null, Str(T_empty), Str(T_abc), Str(T_1_5)}

\* C3: after prepare_df each of the five monetary fields of every record is
\* a number, never null; it is 0 where the raw value was absent, empty or
\* not numeric, and the raw number where there was one; Custo Total Mensal
\* is the sum of the five.
C3_MoneyCoercedAndSummed ==
    Prepared =>
        /\ MONEY_COLS \subseteq Columns(Out)
        /\ \A i \in Rows(Out) :
            /\ \A c \in MONEY_COLS :
                /\ OutCell(c, i).k = "num"
                /\ ~HasIn(c) => OutCell(c, i) = Num(0)
                /\ (HasIn(c) /\ InCell(c, i) \in NotNumericIn) => OutCell(c, i) = Num(0)
                /\ (HasIn(c) /\ InCell(c, i).k = "num") => OutCell(c, i) = InCell(c, i)
                /\ (HasIn(c) /\ InCell(c, i) = Str(T_70)) => OutCell(c, i) = Num(70)
                /\ (HasIn(c) /\ InCell(c, i) = Str(T_4_padded)) => OutCell(c, i) = Num(4)
            /\ OutCell(CUSTO, i) =
                 Num(OutCell(SALARIO, i).n + OutCell("Impostos", i).n
                     + OutCell("Beneficios", i).n + OutCell("VT", i).n
                     + OutCell("VR", i).n)

\* A record with an absent field, an empty one, a non-numeric one and a
\* salary given as text.
C3_Witness ==
    /\ Prepared
    /\ ~HasIn("VT") /\ HasIn("Impostos") /\ HasIn("VR") /\ HasIn(SALARIO)
    /\ \E i \in Rows(Out) :
        /\ InCell("Impostos", i) = Null
        /\ InCell("VR", i) = Str(T_1_5)
        /\ InCell(SALARIO, i) = Str(T_70)
        /\ OutCell(CUSTO, i) = Num(70)

\* C4: after prepare_df Idade and Tempo de Casa are never negative; a birth
\* or hire date after today gives 0; a record whose date is missing or
\* unparseable has a null value; without the date column there is no
\* derived column.
C4_AgeTenureClipped ==
    Prepared =>
        /\ HasIn(NASCIMENTO) <=> IDADE \in Columns(Out)
        /\ HasIn(CONTRATACAO) <=> TEMPO \in Columns(Out)
        /\ HasIn(NASCIMENTO) => \A i \in Rows(Out) :
            /\ OutCell(IDADE, i).k \in {"null", "num"}
            /\ IsNull(OutCell(NASCIMENTO, i)) <=> IsNull(OutCell(IDADE, i))
            /\ OutCell(IDADE, i).n >= 0
            /\ OutCell(NASCIMENTO, i).n > today => OutCell(IDADE, i) = Num(0)
            /\ InCell(NASCIMENTO, i) \in {Null, Str(T_not_a_date)}
                 => IsNull(OutCell(IDADE, i))
            /\ InCell(NASCIMENTO, i) = Str(T_01_01_2030) => OutCell(IDADE, i) = Num(0)
        /\ HasIn(CONTRATACAO) => \A i \in Rows(Out) :
            /\ OutCell(TEMPO, i).k \in {"null", "num"}
            /\ IsNull(OutCell(CONTRATACAO, i)) <=> IsNull(OutCell(TEMPO, i))
            /\ OutCell(TEMPO, i).n >= 0
            /\ OutCell(CONTRATACAO, i).n > today => OutCell(TEMPO, i) = Num(0)
            /\ InCell(CONTRATACAO, i) \in {Null, Str(T_not_a_date)}
                 => IsNull(OutCell(TEMPO, i))
            /\ InCell(CONTRATACAO, i) = Str(T_01_01_2030) => OutCell(TEMPO, i) = Num(0)

\* A birth date after today clipped to 0 beside an unparseable one, and a
\* hire date after today clipped to 0.
C4_Witness ==
    /\ Prepared
    /\ HasIn(NASCIMENTO) /\ HasIn(CONTRATACAO)
    /\ \E i, j \in Rows(Out) :
        /\ InCell(NASCIMENTO, i) = Str(T_01_01_2030)
        /\ OutCell(IDADE, i) = Num(0)
        /\ InCell(NASCIMENTO, j) = Str(T_not_a_date)
        /\ IsNull(OutCell(IDADE, j))
        /\ InCell(CONTRATACAO, i) = Str(T_01_01_2030)
        /\ OutCell(TEMPO, i) = Num(0)
        /\ OutCell(TEMPO, j).n > 0

\* C5 as stated: the long forms map to their codes in any letter case, and
\* every other value of the Sexo column is in the prepared table what it
\* was in the input ("Outro" stays "Outro").
C5_UnrecognizedUnchanged ==
    (Prepared /\ HasIn(SEXO)) =>
        \A i \in Rows(Out) :
            InCell(SEXO, i).k = "str" =>
                OutCell(SEXO, i) =
                    IF StrUpper(InCell(SEXO, i).s) = S_FEMININO THEN Str(S_F)
                    ELSE IF StrUpper(InCell(SEXO, i).s) = S_MASCULINO THEN Str(S_M)
                    ELSE InCell(SEXO, i)

\* C5 amended: the long forms map to their codes in any letter case, and
\* every other value comes out as its text, stripped and uppercased:
\* "Outro" becomes "OUTRO", " M " becomes "M", an empty cell of a text
\* column "NAN".
C5_UnrecognizedUppercased ==
    (Prepared /\ HasIn(SEXO)) =>
        \A i \in Rows(Out) :
            /\ OutCell(SEXO, i).k = "str"
            /\ OutCell(SEXO, i).s = StrUpper(OutCell(SEXO, i).s)
            /\ OutCell(SEXO, i).s \notin {S_FEMININO, S_MASCULINO}
            /\ InCell(SEXO, i) = Str(T_feminino) => OutCell(SEXO, i) = Str(S_F)
            /\ InCell(SEXO, i) = Str(T_Masculino) => OutCell(SEXO, i) = Str(S_M)
            /\ InCell(SEXO, i) = Str(T_Outro) => OutCell(SEXO, i) = Str(T_OUTRO)
            /\ InCell(SEXO, i) = Str(T_M_padded) => OutCell(SEXO, i) = Str(S_M)
            /\ InCell(SEXO, i) = Null => OutCell(SEXO, i) = Str(<<"N","A","N">>)
            /\ InCell(SEXO, i) = Num(1) => OutCell(SEXO, i) = Str(<<"1">>)

\* "feminino" canonicalized to "F" beside "Outro" come out as "OUTRO".
C5_Witness ==
    /\ Prepared
    /\ HasIn(SEXO)
    /\ \E i, j \in Rows(Out) :
        /\ InCell(SEXO, i) = Str(T_feminino)
        /\ OutCell(SEXO, i) = Str(S_F)
        /\ InCell(SEXO, j) = Str(T_Outro)
        /\ OutCell(SEXO, j) = Str(T_OUTRO)

\* C6: for a prepared table of zero records all six indicators are 0,
\* whether or not the birth-date and rating columns are present.
C6_ZeroRecordsAllZero ==
    (pc = "measured" /\ Out.n = 0) =>
        /\ IsZero(kpi[1].headcount)
        /\ IsZero(kpi[1].desligados)
        /\ IsZero(kpi[1].folha)
        /\ IsZero(kpi[1].custo)
        /\ IsZero(kpi[1].idade)
        /\ IsZero(kpi[1].avaliacao)

\* The sum of column c over the records 1..k that are in A.
RECURSIVE SumFirst(_, _, _)
SumFirst(c, A, k) ==
    IF k = 0 THEN 0
    ELSE SumFirst(c, A, k - 1) + (IF k \in A THEN OutCell(c, k).n ELSE 0)

\* C7: k_folha is the sum of Salario Base, and k_custo_total the sum of
\* Custo Total Mensal, over exactly the records whose Status is Ativo; a
\* Desligado record contributes to neither.
C7_PayrollOverActiveOnly ==
    pc = "measured" =>
        LET A == {i \in Rows(Out) : OutCell(STATUS, i) = Str(S_Ativo)}
            D == {i \in Rows(Out) : OutCell(STATUS, i) = Str(S_Desligado)}
        IN /\ kpi[1].folha = Number(SumFirst(SALARIO, A, Out.n))
           /\ kpi[1].custo = Number(SumFirst(CUSTO, A, Out.n))
           /\ kpi[1].folha.num + SumFirst(SALARIO, D, Out.n)
                = SumFirst(SALARIO, Rows(Out), Out.n)
           /\ kpi[1].custo.num + SumFirst(CUSTO, D, Out.n)
                = SumFirst(CUSTO, Rows(Out), Out.n)

\* A terminated record with a salary beside an active one with a salary.
C7_Witness ==
    /\ pc = "measured"
    /\ \E i, j \in Rows(Out) :
        /\ OutCell(STATUS, i) = Str(S_Desligado)
        /\ OutCell(SALARIO, i).n > 0
        /\ OutCell(STATUS, j) = Str(S_Ativo)
        /\ OutCell(SALARIO, j).n > 0
        /\ kpi[1].folha = Number(OutCell(SALARIO, j).n)

\* What a run renders after a successful load, and the error messages.
Rendered == {"caption", "indicators", "table", "download csv", "download xlsx"}
            \cup {"chart " \o c : c \in {AREA, CARGO, IDADE, SEXO}}
Errors == {"Erro ao ler Excel (Upload)", "Erro ao ler Excel (Caminho)",
           "Arquivo nao encontrado"}

\* The source of the run (the upload when there is one, else the path) can
\* not be loaded: no file at the path, or no spreadsheet in the file.
SourceFailed ==
    IF up # "None" THEN ~Readable(up)
    ELSE ~PathExists(caminho_manual) \/ ~Readable(caminho_manual)

C9_UnknownColumnUntouched ==
    (Prepared /\ HasIn(OBS)) =>
        \A i \in Rows(Out) : OutCell(OBS, i) = InCell(OBS, i)

\* The column holds a text.
HasText(c) == \E i \in 1..sheet.n : InCell(c, i).k = "str"

\* C9 amended: a column the script does not know passes through untouched
\* when it holds no text (numbers and empty cells only); when it holds a
\* text, every cell of it comes out as its text form with the surrounding
\* whitespace stripped: a number as its digits, an empty cell as "nan".
C9_UnknownColumnTrimmed ==
    (Prepared /\ HasIn(OBS)) =>
        \A i \in Rows(Out) :
            /\ ~HasText(OBS) => OutCell(OBS, i) = InCell(OBS, i)
            /\ HasText(OBS) =>
                /\ InCell(OBS, i) = Str(T_a_b_padded) => OutCell(OBS, i) = Str(T_a_b)
                /\ InCell(OBS, i) = Null => OutCell(OBS, i) = Str(S_nan)
                /\ InCell(OBS, i) = Num(7) => OutCell(OBS, i) = Str(<<"7">>)

\* A padded text stripped beside an empty cell turned into "nan".
C9_Witness ==
    /\ Prepared
    /\ HasIn(OBS)
    /\ \E i, j \in Rows(Out) :
        /\ InCell(OBS, i) = Str(T_a_b_padded)
        /\ OutCell(OBS, i) = Str(T_a_b)
        /\ InCell(OBS, j) = Null
        /\ OutCell(OBS, j) = Str(S_nan)

\* C10: the canonicalization step (uppercase, then MASCULINO -> M and
\* FEMININO -> F) applied to the Sexo column it has produced changes
\* nothing: twice is the same as once.
C10_CanonIdempotent ==
    (Prepared /\ HasIn(SEXO)) => CanonSexo(Out) = Out

\* "Masculino" canonicalized to "M".
C10_Witness ==
    /\ Prepared
    /\ HasIn(SEXO)
    /\ \E i \in Rows(Out) :
        /\ InCell(SEXO, i) = Str(T_Masculino)
        /\ OutCell(SEXO, i) = Str(S_M)

====
